---- MODULE Spec2Model ----
(***************************************************************************)
(* The duplex session relay of src/app.py: the /ws connection handler      *)
(* ws_endpoint, its two pump tasks client_to_gemini and gemini_to_client,  *)
(* and the GeminiLiveSession object they share.                            *)
(*                                                                         *)
(* One handler runs per client connection.  The handler and the two tasks  *)
(* are coroutines on one event loop: a step of the model is the code that  *)
(* runs between two suspension points (awaits).                            *)
(***************************************************************************)
EXTENDS Integers, Sequences, FiniteSets, TLC

\* ------------------------------------------------------------------ bounds
\* Client frames read, and upstream messages read, while one connection is
\* followed (Spec).
MaxFrames == 2
MaxUp == 2
\* Connections open at once, and the frames and messages read by all of them
\* together, while several connections are followed (SpecIso).
NConn == 2
IsoFrames == 1
IsoMsgs == 1
\* Calls of session.close() a driver makes besides the relay's own (SpecSession).
MaxCloses == 2

Conns == 1..NConn
\* websockets.connect returns a new connection object per call; objects are
\* named 1, 2, ...; 0 is Python's None.
Handles == 1..NConn
None == 0

\* ------------------------------------------------------- configuration
\* os.environ.get("GOOGLE_API_KEY"): unset (None), set but empty, or a key.
KeyUnset == "<None>"
KeyValues == {KeyUnset, "", "k3y"}
\* `not API_KEY`: None and the empty string are falsy.
NotKey(k) == k \in {KeyUnset, ""}
MODEL_ID == "models/gemini-2.5-flash"

\* ------------------------------------------------------------- base64
\* A base64 text is a sequence of characters: 0..63 the alphabet (by index),
\* Pad the '=' sign, Junk any character outside the alphabet (a newline).
Pad == 64
Junk == 65
B64Err == [ok |-> FALSE, bytes |-> <<>>]

\* base64.b64encode: three bytes to four characters, '=' padded.
RECURSIVE b64encode(_)
b64encode(b) ==
    IF Len(b) = 0 THEN <<>>
    ELSE IF Len(b) = 1 THEN
        <<b[1] \div 4, (b[1] % 4) * 16, Pad, Pad>>
    ELSE IF Len(b) = 2 THEN
        <<b[1] \div 4, (b[1] % 4) * 16 + (b[2] \div 16), (b[2] % 16) * 4, Pad>>
    ELSE
        <<b[1] \div 4, (b[1] % 4) * 16 + (b[2] \div 16),
          (b[2] % 16) * 4 + (b[3] \div 64), b[3] % 64>>
        \o b64encode(SubSeq(b, 4, Len(b)))

\* base64.b64decode(s) with validate=False (binascii.a2b_base64): characters
\* outside the alphabet are skipped, a pad that completes a quad ends the
\* input, leftover bits are dropped, and an incomplete quad is an error.
RECURSIVE a2b_base64(_, _, _, _, _, _)
a2b_base64(s, k, quad, left, pads, out) ==
    IF k > Len(s) THEN
        IF quad # 0 THEN B64Err ELSE [ok |-> TRUE, bytes |-> out]
    ELSE IF s[k] = Pad THEN
        IF quad >= 2 /\ quad + pads + 1 >= 4
        THEN [ok |-> TRUE, bytes |-> out]
        ELSE a2b_base64(s, k + 1, quad, left,
                        IF quad >= 2 THEN pads + 1 ELSE pads, out)
    ELSE IF s[k] = Junk THEN
        a2b_base64(s, k + 1, quad, left, pads, out)
    ELSE IF quad = 0 THEN
        a2b_base64(s, k + 1, 1, s[k], 0, out)
    ELSE IF quad = 1 THEN
        a2b_base64(s, k + 1, 2, s[k] % 16, 0,
                   Append(out, left * 4 + (s[k] \div 16)))
    ELSE IF quad = 2 THEN
        a2b_base64(s, k + 1, 3, s[k] % 4, 0,
                   Append(out, left * 16 + (s[k] \div 4)))
    ELSE
        a2b_base64(s, k + 1, 0, 0, 0, Append(out, left * 64 + s[k]))

b64decode(s) == a2b_base64(s, 1, 0, 0, 0, <<>>)

\* ------------------------------------------------------ client frames
\* A text frame from the browser.  json says whether json.loads accepts it;
\* keys are the members of the decoded object.
ClientFrame(json, keys, type, text, pcm16) ==
    [json |-> json, keys |-> keys, type |-> type, text |-> text, pcm16 |-> pcm16]

F_Text      == ClientFrame(TRUE, {"type", "text"}, "text", "hello", <<>>)
\* "AAE=" : the bytes 0, 1
F_Audio     == ClientFrame(TRUE, {"type", "pcm16"}, "audio", "", <<0, 0, 4, Pad>>)
\* "AAF=" : the same bytes, with the two unused bits set
F_AudioBits == ClientFrame(TRUE, {"type", "pcm16"}, "audio", "", <<0, 0, 5, Pad>>)
\* "AA\nECAw==" : a line break inside; the bytes 0, 1, 2, 3
F_AudioJunk == ClientFrame(TRUE, {"type", "pcm16"}, "audio", "",
                           <<0, 0, Junk, 4, 2, 0, 48, Pad, Pad>>)
\* "AAE" : incorrect padding
F_AudioBad  == ClientFrame(TRUE, {"type", "pcm16"}, "audio", "", <<0, 0, 4>>)
F_Video     == ClientFrame(TRUE, {"type", "jpeg"}, "video", "", <<>>)
F_NotJson   == ClientFrame(FALSE, {}, "", "", <<>>)
F_NoType    == ClientFrame(TRUE, {"text"}, "", "hello", <<>>)
F_NoText    == ClientFrame(TRUE, {"type"}, "text", "", <<>>)
F_NoPcm     == ClientFrame(TRUE, {"type"}, "audio", "", <<>>)

ClientFrames == {F_Text, F_Audio, F_AudioBits, F_AudioJunk, F_AudioBad,
                 F_Video, F_NotJson, F_NoType, F_NoText, F_NoPcm}

\* ---------------------------------------------------- upstream frames
\* What the relay writes to the upstream connection.
SetupFrame(model) ==
    [kind |-> "setup", model |-> model, modalities |-> <<"AUDIO", "TEXT">>,
     instructions |-> "You are a helpful assistant."]
TextFrame(text) == [kind |-> "text", text |-> text]
AudioFrame(pcm16) ==
    [kind |-> "audio", mime_type |-> "audio/pcm;rate=16000", data |-> b64encode(pcm16)]
VideoFrame(jpg) ==
    [kind |-> "video", mime_type |-> "image/jpeg", data |-> b64encode(jpg)]

\* What upstream sends: a message json.loads decodes to value, or one it rejects.
UpstreamMsg(json, value) == [json |-> json, value |-> value]
M_Text    == UpstreamMsg(TRUE, [output |-> "text:hi"])
M_Audio   == UpstreamMsg(TRUE, [output |-> "audio:UklGRg=="])
M_NotJson == UpstreamMsg(FALSE, [output |-> ""])
UpstreamMsgs == {M_Text, M_Audio, M_NotJson}

\* ---------------------------------------------- frames to the client
GeminiEnvelope(evt) == [type |-> "gemini", data |-> evt]
ErrorFrame == [error |-> "Missing GOOGLE_API_KEY"]

\* -------------------------------------------------------------- state
VARIABLES
    env,         \* what the two peers do in this run: connections opened, frames, messages
    API_KEY,     \* the module-level credential, read once at import
    hpc,         \* hpc[i]: where the handler of connection i stands
    ipc,         \* ipc[i]: the client_to_gemini task of connection i
    opc,         \* opc[i]: the gemini_to_client task of connection i
    cli,         \* cli[i]: the client websocket of connection i
    cliIn,       \* cliIn[i]: the frames receive_text has returned, in order
    cliOut,      \* cliOut[i]: the frames send_json has accepted, in order
    sess,        \* sess[i]: GeminiLiveSession objects the handler constructed
    conn,        \* conn[i]: how session.connect() of connection i went
    ws,          \* ws[i]: session.ws, None or an upstream connection object
    closeCalls,  \* closeCalls[i]: calls of session.close()
    nextHandle,  \* the next upstream connection object websockets.connect makes
    up,          \* up[h]: the state of upstream connection h
    upIn,        \* upIn[h]: the frames written to upstream connection h, in order
    upOut,       \* upOut[h]: the messages read from upstream connection h, in order
    ret          \* the driver's calls of session.close(): how many, and the last outcome

vars == <<env, API_KEY, hpc, ipc, opc, cli, cliIn, cliOut, sess, conn, ws, closeCalls,
          nextHandle, up, upIn, upOut, ret>>

RECURSIVE SumLen(_, _)
SumLen(f, S) ==
    IF S = {} THEN 0
    ELSE LET x == CHOOSE y \in S : TRUE IN Len(f[x]) + SumLen(f, S \ {x})

FramesRead == SumLen(cliIn, Conns)
MsgsRead == SumLen(upOut, Handles)

Live == {"recv"}
Failed == {"fail_parse", "fail_b64", "fail_json", "fail_send", "fail_recv"}
Finished == {"done"} \cup Failed

Start ==
    /\ API_KEY \in KeyValues
    /\ hpc = [i \in Conns |-> "idle"]
    /\ ipc = [i \in Conns |-> "none"]
    /\ opc = [i \in Conns |-> "none"]
    /\ cli = [i \in Conns |-> "new"]
    /\ cliIn = [i \in Conns |-> <<>>]
    /\ cliOut = [i \in Conns |-> <<>>]
    /\ sess = [i \in Conns |-> 0]
    /\ conn = [i \in Conns |-> "none"]
    /\ ws = [i \in Conns |-> None]
    /\ closeCalls = [i \in Conns |-> 0]
    /\ nextHandle = 1
    /\ up = [h \in Handles |-> "unused"]
    /\ upIn = [h \in Handles |-> <<>>]
    /\ upOut = [h \in Handles |-> <<>>]
    /\ ret = [n |-> 0, raised |-> FALSE]

\* One client connection, every kind of frame and message.
Init ==
    /\ env = [conns |-> 1, frames |-> ClientFrames, msgs |-> UpstreamMsgs,
              maxFrames |-> MaxFrames, maxUp |-> MaxUp, closes |-> 0]
    /\ Start

\* ------------------------------------------------- the two transports
\* websocket.send_json on connection i.  An open client takes the frame.  Once
\* the client has gone the server either raises or drops the frame silently
\* (raises says which).
send_json(i, frame, raises) ==
    IF cli[i] = "open" \/ ~raises
    THEN [raised |-> FALSE, cliOut |-> [cliOut EXCEPT ![i] = Append(@, frame)]]
    ELSE [raised |-> TRUE, cliOut |-> cliOut]

\* self.ws.send(...): AttributeError when self.ws is None, ConnectionClosed
\* when the connection is no longer open, else one frame is written.
ws_send(w, frame) ==
    IF w = None \/ up[w] # "open"
    THEN [raised |-> TRUE, upIn |-> upIn]
    ELSE [raised |-> FALSE, upIn |-> [upIn EXCEPT ![w] = Append(@, frame)]]

\* ------------------------------------------------ GeminiLiveSession
send_user_text(w, text) == ws_send(w, TextFrame(text))

\* Variant: the bytes are written as they are, without base64.b64encode.
send_user_audio_raw(w, pcm16) ==
    ws_send(w, [kind |-> "audio", mime_type |-> "audio/pcm;rate=16000", data |-> pcm16])

send_user_audio(w, pcm16) == ws_send(w, AudioFrame(pcm16))

send_user_video(w, jpg) == ws_send(w, VideoFrame(jpg))

\* Variant: close() without the `if self.ws` guard: None has no close().
close_noguard(w) ==
    IF w # None
    THEN [raised |-> FALSE, up |-> [up EXCEPT ![w] = "closed"]]
    ELSE [raised |-> TRUE, up |-> up]

\* close(): `if self.ws: await self.ws.close()`.  Closing a websockets
\* connection never raises and does nothing to one already closed.
close(w) ==
    IF w # None
    THEN [raised |-> FALSE, up |-> [up EXCEPT ![w] = "closed"]]
    ELSE [raised |-> FALSE, up |-> up]

\* Variant: one upstream connection kept at module level and handed to every
\* session.
NewHandle_shared == CHOOSE h \in Handles : \A g \in Handles : h <= g

\* websockets.connect(url): a new connection object.
NewHandle == nextHandle

\* ------------------------------------------------------ ws_endpoint
\* await websocket.accept()
\* Connections are numbered in the order they arrive.
Accept(i) ==
    /\ hpc[i] = "idle"
    /\ i <= env.conns
    /\ \A j \in Conns : j < i => hpc[j] # "idle"
    /\ hpc' = [hpc EXCEPT ![i] = "accepted"]
    /\ cli' = [cli EXCEPT ![i] = "open"]
    /\ UNCHANGED <<env, API_KEY, ipc, opc, cliIn, cliOut, sess, conn, ws, closeCalls,
                   nextHandle, up, upIn, upOut, ret>>

\* `if not API_KEY: await websocket.send_json({"error": ...})`
MissingKey(i) ==
    /\ hpc[i] = "accepted"
    /\ NotKey(API_KEY)
    /\ \E raises \in BOOLEAN :
         LET r == send_json(i, ErrorFrame, raises) IN
           /\ cliOut' = r.cliOut
           /\ hpc' = [hpc EXCEPT ![i] = IF r.raised THEN "raised" ELSE "err_sent"]
    /\ UNCHANGED <<env, API_KEY, ipc, opc, cli, cliIn, sess, conn, ws, closeCalls,
                   nextHandle, up, upIn, upOut, ret>>

\* Variant: the `return` after websocket.close() is missing, and the handler
\* goes on to construct the session.
ErrorClose_fallthrough(i) ==
    /\ hpc[i] = "err_sent"
    /\ cli' = [cli EXCEPT ![i] = "closed"]
    /\ sess' = [sess EXCEPT ![i] = @ + 1]
    /\ conn' = [conn EXCEPT ![i] = "pending"]
    /\ hpc' = [hpc EXCEPT ![i] = "connecting"]
    /\ UNCHANGED <<env, API_KEY, ipc, opc, cliIn, cliOut, ws, closeCalls,
                   nextHandle, up, upIn, upOut, ret>>

\* `await websocket.close(); return`
ErrorClose(i) ==
    /\ hpc[i] = "err_sent"
    /\ cli' = [cli EXCEPT ![i] = "closed"]
    /\ hpc' = [hpc EXCEPT ![i] = "returned"]
    /\ UNCHANGED <<env, API_KEY, ipc, opc, cliIn, cliOut, sess, conn, ws, closeCalls,
                   nextHandle, up, upIn, upOut, ret>>

\* `session = GeminiLiveSession(API_KEY, MODEL_ID); await session.connect()` up
\* to the await of websockets.connect.  __init__ sets self.ws = None.
StartSession(i) ==
    /\ hpc[i] = "accepted"
    /\ ~NotKey(API_KEY)
    /\ sess' = [sess EXCEPT ![i] = @ + 1]
    /\ ws' = [ws EXCEPT ![i] = None]
    /\ conn' = [conn EXCEPT ![i] = "pending"]
    /\ hpc' = [hpc EXCEPT ![i] = "connecting"]
    /\ UNCHANGED <<env, API_KEY, ipc, opc, cli, cliIn, cliOut, closeCalls,
                   nextHandle, up, upIn, upOut, ret>>

\* websockets.connect raises: the exception leaves connect() and ws_endpoint;
\* self.ws is still None.
HandshakeFail(i) ==
    /\ hpc[i] = "connecting"
    /\ conn' = [conn EXCEPT ![i] = "fail_handshake"]
    /\ hpc' = [hpc EXCEPT ![i] = "raised"]
    /\ UNCHANGED <<env, API_KEY, ipc, opc, cli, cliIn, cliOut, sess, ws, closeCalls,
                   nextHandle, up, upIn, upOut, ret>>

\* Variant: the two tasks are created as soon as the handshake is done, before
\* the setup frame is written.
HandshakeOK_early(i) ==
    /\ hpc[i] = "connecting"
    /\ NewHandle \in Handles
    /\ ws' = [ws EXCEPT ![i] = NewHandle]
    /\ up' = [up EXCEPT ![NewHandle] = "open"]
    /\ nextHandle' = nextHandle + 1
    /\ hpc' = [hpc EXCEPT ![i] = "setup"]
    /\ conn' = [conn EXCEPT ![i] = "ok"]
    /\ ipc' = [ipc EXCEPT ![i] = "recv"]
    /\ opc' = [opc EXCEPT ![i] = "recv"]
    /\ UNCHANGED <<env, API_KEY, cli, cliIn, cliOut, sess, closeCalls,
                   upIn, upOut, ret>>

\* websockets.connect returns: `self.ws = await websockets.connect(...)`.
HandshakeOK(i) ==
    /\ hpc[i] = "connecting"
    /\ NewHandle \in Handles
    /\ ws' = [ws EXCEPT ![i] = NewHandle]
    /\ up' = [up EXCEPT ![NewHandle] = "open"]
    /\ nextHandle' = nextHandle + 1
    /\ hpc' = [hpc EXCEPT ![i] = "setup"]
    /\ UNCHANGED <<env, API_KEY, ipc, opc, cli, cliIn, cliOut, sess, conn, closeCalls,
                   upIn, upOut, ret>>

\* Variant: a failure of connect() is caught and ignored, and the tasks are
\* created all the same.
SendSetup_swallow(i) ==
    /\ hpc[i] = "setup"
    /\ LET r == ws_send(ws[i], SetupFrame(MODEL_ID)) IN
         /\ upIn' = r.upIn
         /\ conn' = [conn EXCEPT ![i] = IF r.raised THEN "fail_setup" ELSE "ok"]
    /\ hpc' = [hpc EXCEPT ![i] = "waiting"]
    /\ ipc' = [ipc EXCEPT ![i] = "recv"]
    /\ opc' = [opc EXCEPT ![i] = "recv"]
    /\ UNCHANGED <<env, API_KEY, cli, cliIn, cliOut, sess, ws, closeCalls,
                   nextHandle, up, upOut, ret>>

\* `await self.ws.send(json.dumps(setup))`, and when it returns the two tasks
\* are created and the handler waits for the first to finish.  When the send
\* raises the exception leaves ws_endpoint and no task is created.
SendSetup(i) ==
    /\ hpc[i] = "setup"
    /\ LET r == ws_send(ws[i], SetupFrame(MODEL_ID)) IN
         /\ upIn' = r.upIn
         /\ IF r.raised
            THEN /\ conn' = [conn EXCEPT ![i] = "fail_setup"]
                 /\ hpc' = [hpc EXCEPT ![i] = "raised"]
                 /\ UNCHANGED <<ipc, opc>>
            ELSE /\ conn' = [conn EXCEPT ![i] = "ok"]
                 /\ hpc' = [hpc EXCEPT ![i] = "waiting"]
                 /\ ipc' = [ipc EXCEPT ![i] = "recv"]
                 /\ opc' = [opc EXCEPT ![i] = "recv"]
    /\ UNCHANGED <<env, API_KEY, cli, cliIn, cliOut, sess, ws, closeCalls,
                   nextHandle, up, upOut, ret>>

\* ------------------------------------------------- client_to_gemini
\* Variant: a frame that does not parse, or lacks a member, is skipped.
Dispatch_lenient(w, f) ==
    IF ~f.json \/ "type" \notin f.keys THEN [pc |-> "recv", upIn |-> upIn]
    ELSE IF f.type = "text" THEN
        IF "text" \notin f.keys THEN [pc |-> "recv", upIn |-> upIn]
        ELSE LET r == send_user_text(w, f.text) IN
             [pc |-> IF r.raised THEN "fail_send" ELSE "recv", upIn |-> r.upIn]
    ELSE IF f.type = "audio" THEN
        IF "pcm16" \notin f.keys THEN [pc |-> "recv", upIn |-> upIn]
        ELSE LET d == b64decode(f.pcm16) IN
             IF ~d.ok THEN [pc |-> "fail_b64", upIn |-> upIn]
             ELSE LET r == send_user_audio(w, d.bytes) IN
                  [pc |-> IF r.raised THEN "fail_send" ELSE "recv", upIn |-> r.upIn]
    ELSE [pc |-> "recv", upIn |-> upIn]

\* Variant: a frame of any other type is an error.
Dispatch_strict(w, f) ==
    IF ~f.json \/ "type" \notin f.keys THEN [pc |-> "fail_parse", upIn |-> upIn]
    ELSE IF f.type = "text" THEN
        IF "text" \notin f.keys THEN [pc |-> "fail_parse", upIn |-> upIn]
        ELSE LET r == send_user_text(w, f.text) IN
             [pc |-> IF r.raised THEN "fail_send" ELSE "recv", upIn |-> r.upIn]
    ELSE IF f.type = "audio" THEN
        IF "pcm16" \notin f.keys THEN [pc |-> "fail_parse", upIn |-> upIn]
        ELSE LET d == b64decode(f.pcm16) IN
             IF ~d.ok THEN [pc |-> "fail_b64", upIn |-> upIn]
             ELSE LET r == send_user_audio(w, d.bytes) IN
                  [pc |-> IF r.raised THEN "fail_send" ELSE "recv", upIn |-> r.upIn]
    ELSE [pc |-> "fail_parse", upIn |-> upIn]

\* One frame through the loop body: json.loads, data["type"], the send.
\* The result is how the task goes on and what was written upstream.
Dispatch(w, f) ==
    IF ~f.json \/ "type" \notin f.keys THEN [pc |-> "fail_parse", upIn |-> upIn]
    ELSE IF f.type = "text" THEN
        IF "text" \notin f.keys THEN [pc |-> "fail_parse", upIn |-> upIn]
        ELSE LET r == send_user_text(w, f.text) IN
             [pc |-> IF r.raised THEN "fail_send" ELSE "recv", upIn |-> r.upIn]
    ELSE IF f.type = "audio" THEN
        IF "pcm16" \notin f.keys THEN [pc |-> "fail_parse", upIn |-> upIn]
        ELSE LET d == b64decode(f.pcm16) IN
             IF ~d.ok THEN [pc |-> "fail_b64", upIn |-> upIn]
             ELSE LET r == send_user_audio(w, d.bytes) IN
                  [pc |-> IF r.raised THEN "fail_send" ELSE "recv", upIn |-> r.upIn]
    ELSE [pc |-> "recv", upIn |-> upIn]

\* Variant: the inbound task acknowledges each frame to the client.
InboundFrame_ack(i) ==
    /\ ipc[i] = "recv"
    /\ cli[i] = "open"
    /\ FramesRead < env.maxFrames
    /\ \E f \in env.frames :
         LET r == Dispatch(ws[i], f) IN
           /\ cliIn' = [cliIn EXCEPT ![i] = Append(@, f)]
           /\ upIn' = r.upIn
           /\ ipc' = [ipc EXCEPT ![i] = r.pc]
    /\ cliOut' = send_json(i, [type |-> "ack"], FALSE).cliOut
    /\ UNCHANGED <<env, API_KEY, hpc, opc, cli, sess, conn, ws, closeCalls,
                   nextHandle, up, upOut, ret>>

\* receive_text returns a frame.
InboundFrame(i) ==
    /\ ipc[i] = "recv"
    /\ cli[i] = "open"
    /\ FramesRead < env.maxFrames
    /\ \E f \in env.frames :
         LET r == Dispatch(ws[i], f) IN
           /\ cliIn' = [cliIn EXCEPT ![i] = Append(@, f)]
           /\ upIn' = r.upIn
           /\ ipc' = [ipc EXCEPT ![i] = r.pc]
    /\ UNCHANGED <<env, API_KEY, hpc, opc, cli, cliOut, sess, conn, ws, closeCalls,
                   nextHandle, up, upOut, ret>>

\* receive_text raises WebSocketDisconnect: `except WebSocketDisconnect: pass`.
InboundDisconnect(i) ==
    /\ ipc[i] = "recv"
    /\ cli[i] # "open"
    /\ ipc' = [ipc EXCEPT ![i] = "done"]
    /\ UNCHANGED <<env, API_KEY, hpc, opc, cli, cliIn, cliOut, sess, conn, ws, closeCalls,
                   nextHandle, up, upIn, upOut, ret>>

\* ------------------------------------------------- gemini_to_client
\* Variant: a message json.loads rejects is skipped and the loop goes on.
Forward_skip(i, m, raises) ==
    IF ~m.json THEN [pc |-> "recv", cliOut |-> cliOut]
    ELSE LET r == send_json(i, GeminiEnvelope(m.value), raises) IN
         [pc |-> IF r.raised THEN "fail_send" ELSE "recv", cliOut |-> r.cliOut]

\* Variant: the event is sent as it is, without the envelope.
Forward_bare(i, m, raises) ==
    IF ~m.json THEN [pc |-> "fail_json", cliOut |-> cliOut]
    ELSE LET r == send_json(i, m.value, raises) IN
         [pc |-> IF r.raised THEN "fail_send" ELSE "recv", cliOut |-> r.cliOut]

\* One message through `async for evt in session.receive()`: json.loads, the
\* envelope, send_json.
Forward(i, m, raises) ==
    IF ~m.json THEN [pc |-> "fail_json", cliOut |-> cliOut]
    ELSE LET r == send_json(i, GeminiEnvelope(m.value), raises) IN
         [pc |-> IF r.raised THEN "fail_send" ELSE "recv", cliOut |-> r.cliOut]

OutboundMessage(i) ==
    /\ opc[i] = "recv"
    /\ ws[i] # None
    /\ up[ws[i]] = "open"
    /\ MsgsRead < env.maxUp
    /\ \E m \in env.msgs, raises \in BOOLEAN :
         LET r == Forward(i, m, raises) IN
           /\ upOut' = [upOut EXCEPT ![ws[i]] = Append(@, m)]
           /\ cliOut' = r.cliOut
           /\ opc' = [opc EXCEPT ![i] = r.pc]
    /\ UNCHANGED <<env, API_KEY, hpc, ipc, cli, cliIn, sess, conn, ws, closeCalls,
                   nextHandle, up, upIn, ret>>

\* The upstream connection has ended: the iteration stops after a normal
\* closure and raises ConnectionClosedError after a broken one.
OutboundEnd(i) ==
    /\ opc[i] = "recv"
    /\ ws[i] # None
    /\ up[ws[i]] # "open"
    /\ opc' = [opc EXCEPT ![i] = IF up[ws[i]] = "broken" THEN "fail_recv" ELSE "done"]
    /\ UNCHANGED <<env, API_KEY, hpc, ipc, cli, cliIn, cliOut, sess, conn, ws, closeCalls,
                   nextHandle, up, upIn, upOut, ret>>

\* --------------------------------------------------------- teardown
\* t.cancel(): a finished task is left as it is, a running one is marked and
\* gets CancelledError at its suspension point the next time it is scheduled.
cancel(pc) == IF pc \in Live THEN "cancelling" ELSE pc

\* Variant: session.close() is called once for each task found finished.
Teardown_closeEach(i) ==
    /\ hpc[i] = "waiting"
    /\ ipc[i] \in Finished \/ opc[i] \in Finished
    /\ ipc' = [ipc EXCEPT ![i] = cancel(@)]
    /\ opc' = [opc EXCEPT ![i] = cancel(@)]
    /\ up' = close(ws[i]).up
    /\ hpc' = [hpc EXCEPT ![i] = "closing"]
    /\ closeCalls' = [closeCalls EXCEPT ![i] =
                        @ + (IF ipc[i] \in Finished THEN 1 ELSE 0)
                          + (IF opc[i] \in Finished THEN 1 ELSE 0)]
    /\ UNCHANGED <<env, API_KEY, cli, cliIn, cliOut, sess, conn, ws,
                   nextHandle, upIn, upOut, ret>>

\* Variant: the result of the finished task is read (t.result()), which raises
\* the exception the task ended with, before anything is cancelled or closed.
Teardown_reraise(i) ==
    /\ hpc[i] = "waiting"
    /\ ipc[i] \in Finished \/ opc[i] \in Finished
    /\ IF ipc[i] \in Failed \/ opc[i] \in Failed
       THEN /\ hpc' = [hpc EXCEPT ![i] = "raised"]
            /\ UNCHANGED <<ipc, opc, up, closeCalls>>
       ELSE /\ ipc' = [ipc EXCEPT ![i] = cancel(@)]
            /\ opc' = [opc EXCEPT ![i] = cancel(@)]
            /\ up' = close(ws[i]).up
            /\ hpc' = [hpc EXCEPT ![i] = "closing"]
            /\ closeCalls' = [closeCalls EXCEPT ![i] = @ + 1]
    /\ UNCHANGED <<env, API_KEY, cli, cliIn, cliOut, sess, conn, ws,
                   nextHandle, upIn, upOut, ret>>

\* Variant: the handler waits until both tasks are done (ALL_COMPLETED).
Teardown_waitAll(i) ==
    /\ hpc[i] = "waiting"
    /\ ipc[i] \in Finished /\ opc[i] \in Finished
    /\ ipc' = [ipc EXCEPT ![i] = cancel(@)]
    /\ opc' = [opc EXCEPT ![i] = cancel(@)]
    /\ LET r == close(ws[i]) IN
         /\ up' = r.up
         /\ hpc' = [hpc EXCEPT ![i] = IF r.raised THEN "raised" ELSE "closing"]
    /\ closeCalls' = [closeCalls EXCEPT ![i] = @ + 1]
    /\ UNCHANGED <<env, API_KEY, cli, cliIn, cliOut, sess, conn, ws,
                   nextHandle, upIn, upOut, ret>>

\* Variant: the session is closed first; the tasks are left as they are while
\* close() is awaited.
Teardown_closeFirst(i) ==
    /\ hpc[i] = "waiting"
    /\ ipc[i] \in Finished \/ opc[i] \in Finished
    /\ LET r == close(ws[i]) IN
         /\ up' = r.up
         /\ hpc' = [hpc EXCEPT ![i] = IF r.raised THEN "raised" ELSE "closing"]
    /\ closeCalls' = [closeCalls EXCEPT ![i] = @ + 1]
    /\ UNCHANGED <<env, API_KEY, ipc, opc, cli, cliIn, cliOut, sess, conn, ws,
                   nextHandle, upIn, upOut, ret>>

\* asyncio.wait(..., FIRST_COMPLETED) returns; `for t in tasks: t.cancel()`;
\* `await session.close()` up to its await.
Teardown(i) ==
    /\ hpc[i] = "waiting"
    /\ ipc[i] \in Finished \/ opc[i] \in Finished
    /\ ipc' = [ipc EXCEPT ![i] = cancel(@)]
    /\ opc' = [opc EXCEPT ![i] = cancel(@)]
    /\ LET r == close(ws[i]) IN
         /\ up' = r.up
         /\ hpc' = [hpc EXCEPT ![i] = IF r.raised THEN "raised" ELSE "closing"]
    /\ closeCalls' = [closeCalls EXCEPT ![i] = @ + 1]
    /\ UNCHANGED <<env, API_KEY, cli, cliIn, cliOut, sess, conn, ws,
                   nextHandle, upIn, upOut, ret>>

\* session.close() returns and ws_endpoint returns.
Return(i) ==
    /\ hpc[i] = "closing"
    /\ hpc' = [hpc EXCEPT ![i] = "returned"]
    /\ UNCHANGED <<env, API_KEY, ipc, opc, cli, cliIn, cliOut, sess, conn, ws, closeCalls,
                   nextHandle, up, upIn, upOut, ret>>

\* A cancelled task is scheduled: CancelledError ends it.
InboundCancelled(i) ==
    /\ ipc[i] = "cancelling"
    /\ ipc' = [ipc EXCEPT ![i] = "cancelled"]
    /\ UNCHANGED <<env, API_KEY, hpc, opc, cli, cliIn, cliOut, sess, conn, ws, closeCalls,
                   nextHandle, up, upIn, upOut, ret>>

OutboundCancelled(i) ==
    /\ opc[i] = "cancelling"
    /\ opc' = [opc EXCEPT ![i] = "cancelled"]
    /\ UNCHANGED <<env, API_KEY, hpc, ipc, cli, cliIn, cliOut, sess, conn, ws, closeCalls,
                   nextHandle, up, upIn, upOut, ret>>

\* An exception has left ws_endpoint: the server that runs the handler logs
\* it and closes the client connection.
ServerAbort(i) ==
    /\ hpc[i] = "raised"
    /\ hpc' = [hpc EXCEPT ![i] = "aborted"]
    /\ cli' = [cli EXCEPT ![i] = "closed"]
    /\ UNCHANGED <<env, API_KEY, ipc, opc, cliIn, cliOut, sess, conn, ws, closeCalls,
                   nextHandle, up, upIn, upOut, ret>>

\* ------------------------------------------------------ the two peers
\* The browser closes its connection (endCall, a closed tab).
ClientDisconnect(i) ==
    /\ cli[i] = "open"
    /\ cli' = [cli EXCEPT ![i] = "gone"]
    /\ UNCHANGED <<env, API_KEY, hpc, ipc, opc, cliIn, cliOut, sess, conn, ws, closeCalls,
                   nextHandle, up, upIn, upOut, ret>>

\* The upstream service ends connection h, normally or not.
UpstreamEnd(h) ==
    /\ up[h] = "open"
    /\ \E how \in {"eof", "broken"} : up' = [up EXCEPT ![h] = how]
    /\ UNCHANGED <<env, API_KEY, hpc, ipc, opc, cli, cliIn, cliOut, sess, conn, ws,
                   closeCalls, nextHandle, upIn, upOut, ret>>

Next ==
    \/ \E i \in Conns :
         \/ Accept(i)
         \/ MissingKey(i)
         \/ ErrorClose(i)
         \/ StartSession(i)
         \/ HandshakeFail(i)
         \/ HandshakeOK(i)
         \/ SendSetup(i)
         \/ InboundFrame(i)
         \/ InboundDisconnect(i)
         \/ OutboundMessage(i)
         \/ OutboundEnd(i)
         \/ Teardown(i)
         \/ Return(i)
         \/ InboundCancelled(i)
         \/ OutboundCancelled(i)
         \/ ServerAbort(i)
         \/ ClientDisconnect(i)
    \/ \E h \in Handles : UpstreamEnd(h)

Spec == Init /\ [][Next]_vars

\* Several client connections at once, one good and one bad kind of frame and
\* of message.
InitIso ==
    /\ env = [conns |-> NConn, frames |-> {F_Text, F_NotJson},
              msgs |-> {M_Text, M_NotJson},
              maxFrames |-> IsoFrames, maxUp |-> IsoMsgs, closes |-> 0]
    /\ Start

SpecIso == InitIso /\ [][Next]_vars

\* ------------------------------------------- GeminiLiveSession, driven
\* A driver holding the session object of connection i calls close() on it,
\* whatever the relay is doing with it.
DriverClose(i) ==
    /\ sess[i] >= 1
    /\ ret.n < env.closes
    /\ LET r == close(ws[i]) IN
         /\ up' = r.up
         /\ ret' = [n |-> ret.n + 1, raised |-> r.raised]
    /\ closeCalls' = [closeCalls EXCEPT ![i] = @ + 1]
    /\ UNCHANGED <<env, API_KEY, hpc, ipc, opc, cli, cliIn, cliOut, sess, conn, ws,
                   nextHandle, upIn, upOut>>

NextSession ==
    \/ Next
    \/ \E i \in Conns : DriverClose(i)

\* One client connection whose session object is also closed by a driver, at
\* any moment and more than once.
InitSession ==
    /\ env = [conns |-> 1, frames |-> {F_Text, F_NotJson},
              msgs |-> {M_Text, M_NotJson},
              maxFrames |-> IsoFrames, maxUp |-> IsoMsgs, closes |-> MaxCloses]
    /\ Start

SpecSession == InitSession /\ [][NextSession]_vars

\* ------------------------------------------------ the event loop, fair
\* The event loop runs every callback that is ready: the handler is resumed
\* once the future of asyncio.wait is done, and again once close() has
\* finished. Nothing is assumed about the client or the upstream service.
SpecFair ==
    /\ Init
    /\ [][Next]_vars
    /\ \A i \in Conns : WF_vars(Teardown(i)) /\ WF_vars(Return(i))

\* =================================================================
\* Properties
\* =================================================================
\* C1: when the credential is missing (unset or empty), the handler of an
\* accepted connection never constructs a session, never attempts an upstream
\* connection and never starts a pump; the only frame it ever sends is the one
\* error frame {"error": "Missing GOOGLE_API_KEY"}; once send_json has taken
\* that frame the handler closes the client connection and returns, so a
\* handler that returned has sent exactly that one frame and closed the
\* connection.
C1_MissingCredential ==
    NotKey(API_KEY) =>
      /\ nextHandle = 1
      /\ \A h \in Handles : up[h] = "unused" /\ upIn[h] = <<>> /\ upOut[h] = <<>>
      /\ \A i \in Conns :
           /\ sess[i] = 0 /\ conn[i] = "none" /\ ws[i] = None
           /\ ipc[i] = "none" /\ opc[i] = "none" /\ closeCalls[i] = 0
           /\ cliOut[i] \in {<<>>, <<ErrorFrame>>}
           /\ hpc[i] \in {"err_sent", "returned"} => cliOut[i] = <<ErrorFrame>>
           /\ hpc[i] = "returned" => cli[i] = "closed"
           /\ hpc[i] \in {"idle", "accepted", "err_sent"} => cli[i] # "closed"

C1_Witness ==
    /\ NotKey(API_KEY)
    /\ hpc[1] = "returned"
    /\ cliOut[1] = <<ErrorFrame>>
    /\ cli[1] = "closed"

\* C2: when session.connect() fails, in the handshake or in the setup send,
\* no "gemini" envelope is ever sent on that connection, neither task is ever
\* created, the exception ends the handler, and the client connection is closed
\* when the handler's end has been dealt with.
C2_ConnectFailure ==
    \A i \in Conns :
      conn[i] \in {"fail_handshake", "fail_setup"} =>
        /\ ipc[i] = "none" /\ opc[i] = "none"
        /\ cliOut[i] = <<>>
        /\ hpc[i] \in {"raised", "aborted"}
        /\ hpc[i] = "aborted" => cli[i] = "closed"

C2_Witness ==
    /\ conn[1] = "fail_setup"
    /\ hpc[1] = "aborted"
    /\ cli[1] = "closed"
    /\ cliOut[1] = <<>>

\* C3: a handler whose session became active (connect succeeded, both tasks
\* created) constructs one session, opens one upstream connection and calls
\* session.close() exactly once: never before a task has finished, once when
\* teardown has begun, and never a second time, whichever task finished first
\* and also when both had finished before the handler ran again.
C3_OneSessionOneClose ==
    \A i \in Conns :
      /\ sess[i] <= 1
      /\ closeCalls[i] <= 1
      /\ conn[i] = "ok" =>
           /\ sess[i] = 1
           /\ ws[i] # None
           /\ Cardinality({h \in Handles : up[h] # "unused"})
                = Cardinality({j \in Conns : ws[j] # None})
           /\ hpc[i] \in {"waiting", "closing", "returned"}
           /\ hpc[i] = "waiting" => closeCalls[i] = 0
           /\ hpc[i] \in {"closing", "returned"} =>
                closeCalls[i] = 1 /\ up[ws[i]] = "closed"

\* Both tasks had finished by themselves when the handler tore down.
C3_Witness ==
    /\ hpc[1] = "returned"
    /\ ipc[1] \in Finished
    /\ opc[1] \in Finished
    /\ closeCalls[1] = 1

\* C4: when send_json fails in gemini_to_client because the client has gone,
\* the exception ends that task only: it never leaves ws_endpoint (the handler
\* of an active session never ends by an exception), and the handler still
\* cancels the other task and closes the session.
C4_SendFailureSwallowed ==
    \A i \in Conns :
      /\ conn[i] = "ok" => hpc[i] \notin {"raised", "aborted"}
      /\ opc[i] = "fail_send" =>
           /\ cli[i] # "open"
           /\ hpc[i] \in {"waiting", "closing", "returned"}
           /\ hpc[i] \in {"closing", "returned"} =>
                /\ ipc[i] \notin Live
                /\ closeCalls[i] = 1
                /\ up[ws[i]] = "closed"

\* The client went while the inbound task was still reading; the outbound send
\* failed; the inbound task was cancelled and the session closed.
C4_Witness ==
    /\ opc[1] = "fail_send"
    /\ cli[1] = "gone"
    /\ ipc[1] = "cancelled"
    /\ hpc[1] = "returned"
    /\ up[ws[1]] = "closed"

\* A frame the inbound task forwards: a text or audio event that parses.
IsEvent(f) ==
    /\ f.json
    /\ "type" \in f.keys
    /\ \/ f.type = "text" /\ "text" \in f.keys
       \/ f.type = "audio" /\ "pcm16" \in f.keys /\ b64decode(f.pcm16).ok

\* u is what the event f is to be sent as.
ImageOf(f, u) ==
    IF f.type = "text"
    THEN u = [kind |-> "text", text |-> f.text]
    ELSE /\ u.kind = "audio"
         /\ u.mime_type = "audio/pcm;rate=16000"
         /\ b64decode(u.data).ok
         /\ b64decode(u.data).bytes = b64decode(f.pcm16).bytes

\* C5: the input frames written upstream (those after the setup frame) are,
\* one for one and in order, the images of a prefix of the valid events the
\* inbound task has read: a text event as a text frame with the same string, an
\* audio event as an audio frame whose data decodes to the bytes the client's
\* pcm16 decodes to; nothing is duplicated, reordered or sent as the other kind,
\* and at most the last event read is missing (its send failed).
C5_InboundImage ==
    \A i \in Conns :
      conn[i] = "ok" =>
        LET sent == Tail(upIn[ws[i]])
            events == SelectSeq(cliIn[i], IsEvent)
        IN /\ Len(sent) <= Len(events)
           /\ Len(events) <= Len(sent) + 1
           /\ \A k \in 1..Len(sent) : ImageOf(events[k], sent[k])

\* An audio event whose base64 text is not what b64encode gives back, then a
\* text event, both forwarded.
C5_Witness ==
    /\ conn[1] = "ok"
    /\ cliIn[1] = <<F_AudioBits, F_Text>>
    /\ Len(upIn[ws[1]]) = 3
    /\ upIn[ws[1]][2].data # F_AudioBits.pcm16
    /\ upIn[ws[1]][3].kind = "text"

\* C6: at every moment the frames sent to the client of an active session are
\* the envelopes {type: "gemini", data: e} of the first messages read from
\* upstream, e being what json.loads made of the message, in the order read,
\* none left out, repeated or changed; at most the last message read has no
\* envelope (it did not decode, or its send failed).
C6_OutboundPrefix ==
    \A i \in Conns :
      conn[i] = "ok" =>
        LET read == upOut[ws[i]] IN
          /\ Len(cliOut[i]) <= Len(read)
          /\ Len(read) <= Len(cliOut[i]) + 1
          /\ \A k \in 1..Len(cliOut[i]) :
               /\ read[k].json
               /\ cliOut[i][k] = [type |-> "gemini", data |-> read[k].value]

C6_Witness ==
    /\ conn[1] = "ok"
    /\ upOut[ws[1]] = <<M_Audio, M_Text>>
    /\ Len(cliOut[1]) = 2

\* C7: whatever is written on an upstream connection starts with the setup
\* frame (model, modalities AUDIO and TEXT, the fixed instruction), which is
\* written once; no text, audio or video frame comes before it; and a task
\* exists only when connect, the setup send included, has succeeded.
C7_SetupFirst ==
    /\ \A h \in Handles :
         upIn[h] # <<>> =>
           /\ upIn[h][1] = [kind |-> "setup", model |-> MODEL_ID,
                            modalities |-> <<"AUDIO", "TEXT">>,
                            instructions |-> "You are a helpful assistant."]
           /\ \A k \in 2..Len(upIn[h]) : upIn[h][k].kind \in {"text", "audio", "video"}
    /\ \A i \in Conns :
         ipc[i] # "none" \/ opc[i] # "none" =>
           /\ conn[i] = "ok"
           /\ ws[i] # None
           /\ Len(upIn[ws[i]]) >= 1

C7_Witness ==
    /\ ws[1] # None
    /\ Len(upIn[ws[1]]) = 3
    /\ upIn[ws[1]][1].kind = "setup"
    /\ upIn[ws[1]][2].kind = "audio"

\* C8: session.close() is idempotent and never fails, in whatever state the
\* session is and however often it is called: it never raises; it leaves
\* self.ws as it is; on a session that never connected (self.ws is None) it
\* changes nothing; otherwise the upstream connection is closed afterwards,
\* and a call on a session already closed changes nothing.
C8_CloseIdempotent ==
    [][\A i \in Conns :
         closeCalls'[i] = closeCalls[i] + 1 =>
           /\ ~ret'.raised
           /\ hpc'[i] = "raised" => hpc[i] = "raised"
           /\ ws'[i] = ws[i]
           /\ upIn' = upIn /\ upOut' = upOut
           /\ IF ws[i] = None
              THEN up' = up
              ELSE /\ up'[ws[i]] = "closed"
                   /\ \A h \in Handles \ {ws[i]} : up'[h] = up[h]
                   /\ up[ws[i]] = "closed" => up' = up
    ]_vars

\* close() called three times on a connected session: by the relay's teardown
\* and twice by the driver.
C8_Witness ==
    /\ closeCalls[1] = 3
    /\ ws[1] # None
    /\ up[ws[1]] = "closed"
    /\ ~ret.raised

\* What belongs to connection i: its handler, its tasks, its client channel,
\* its session object and the upstream connection that object holds.
SessionView(i) ==
    <<hpc[i], ipc[i], opc[i], cli[i], cliIn[i], cliOut[i], sess[i], conn[i], ws[i],
      closeCalls[i],
      IF ws[i] # None THEN <<up[ws[i]], upIn[ws[i]], upOut[ws[i]]>> ELSE <<>> >>

\* C9: with several connections open at once, no upstream connection is held
\* by two sessions, and every step (a connect failure, a transport error, a
\* client disconnect, a teardown, any other) changes what belongs to at most
\* one connection: whatever happens in one session, every other session's
\* handler, tasks, client channel, session object and upstream connection stay
\* as they were.
C9_Isolation ==
    /\ [](\A i, j \in Conns : i # j /\ ws[i] # None => ws[i] # ws[j])
    /\ [][\A i, j \in Conns :
            i # j /\ SessionView(i)' # SessionView(i) => SessionView(j)' = SessionView(j)
         ]_vars

\* Connection 1 was torn down after a transport error while connection 2 is
\* active, both its tasks running on its own open upstream connection.
C9_Witness ==
    /\ hpc[1] = "returned"
    /\ opc[1] = "fail_recv"
    /\ hpc[2] = "waiting"
    /\ ipc[2] = "recv"
    /\ opc[2] = "recv"
    /\ ws[2] # None
    /\ ws[1] # ws[2]
    /\ up[ws[2]] = "open"

\* C10 as stated: every frame sent to the client carries a type tag, "gemini"
\* or "error".
C10_OnlyTaggedFrames ==
    \A i \in Conns :
      \A k \in 1..Len(cliOut[i]) :
        /\ "type" \in DOMAIN cliOut[i][k]
        /\ cliOut[i][k].type \in {"gemini", "error"}

\* C10, amended: every frame sent to the client is either an envelope
\* {type: "gemini", data: e} with e a decoded upstream event, or the frame
\* {"error": "Missing GOOGLE_API_KEY"}, which has no type tag and is the only
\* frame of a connection made while the credential is missing.
C10_FrameShapes ==
    \A i \in Conns :
      \A k \in 1..Len(cliOut[i]) :
        LET f == cliOut[i][k] IN
          \/ /\ DOMAIN f = {"type", "data"}
             /\ f.type = "gemini"
             /\ \E m \in UpstreamMsgs : m.json /\ f.data = m.value
          \/ /\ DOMAIN f = {"error"}
             /\ f.error = "Missing GOOGLE_API_KEY"
             /\ NotKey(API_KEY)
             /\ Len(cliOut[i]) = 1

C10_Witness ==
    \E i \in Conns :
      /\ Len(cliOut[i]) = 1
      /\ DOMAIN cliOut[i][1] = {"error"}

\* A task that has not ended: it is running, or its cancellation was asked for
\* and CancelledError has not been delivered to it yet.
NotEnded == Live \cup {"cancelling"}

\* C11: the handler of an active session has returned, or has closed the
\* upstream session, only when both tasks have ended (finished by themselves,
\* or cancelled and the cancellation delivered): in no state is the handler
\* closing or returned, or the session closed by it, while a task has not
\* ended.
C11_ClosedAfterPumps ==
    \A i \in Conns :
      conn[i] = "ok" /\ (hpc[i] \in {"closing", "returned"} \/ closeCalls[i] >= 1) =>
        /\ ipc[i] \notin NotEnded
        /\ opc[i] \notin NotEnded

\* A task whose cancellation has been asked for.
Cancelled == {"cancelling", "cancelled"}

\* C12: the handler of an active session leaves its wait only when a task has
\* finished, and in that step it cancels the task still running and then calls
\* session.close(): no task is cancelled and the session is not closed while
\* the handler waits, and once close() has been called no task is running.
\* From the step that cancels it on, a cancelled task forwards nothing: the
\* inbound task reads no client frame and writes no frame upstream, the
\* outbound task reads no upstream message and sends no frame to the client,
\* also when a frame or message was there for it to take.
C12_CancelThenClose ==
    /\ [](\A i \in Conns :
            conn[i] = "ok" =>
              /\ hpc[i] = "waiting" =>
                   /\ closeCalls[i] = 0
                   /\ ipc[i] \notin Cancelled
                   /\ opc[i] \notin Cancelled
              /\ closeCalls[i] >= 1 =>
                   /\ ipc[i] \notin Live
                   /\ opc[i] \notin Live)
    /\ [][\A i \in Conns :
            /\ hpc[i] = "waiting" /\ hpc'[i] # "waiting" =>
                 /\ ipc[i] \in Finished \/ opc[i] \in Finished
                 /\ ipc'[i] = cancel(ipc[i])
                 /\ opc'[i] = cancel(opc[i])
                 /\ closeCalls'[i] = 1
            /\ ipc[i] \in Cancelled =>
                 /\ ipc'[i] \in Cancelled
                 /\ cliIn'[i] = cliIn[i]
                 /\ upIn'[ws[i]] = upIn[ws[i]]
            /\ opc[i] \in Cancelled =>
                 /\ opc'[i] \in Cancelled
                 /\ upOut'[ws[i]] = upOut[ws[i]]
                 /\ cliOut'[i] = cliOut[i]]_vars

\* The outbound task had forwarded one message and could have read another
\* when the client went; it was cancelled and sent nothing more.
C12_Witness ==
    /\ ipc[1] = "done"
    /\ opc[1] = "cancelled"
    /\ hpc[1] = "returned"
    /\ Len(upOut[ws[1]]) = 1
    /\ Len(cliOut[1]) = 1
    /\ MsgsRead < env.maxUp

\* C13: in an active session, once either task has finished (the inbound task
\* by the client's disconnect, which is not an error, or by an exception; the
\* outbound task by the end of the upstream stream or by an exception), the
\* handler, under a fair event loop, comes to have closed the upstream session
\* (one close() call) and to have returned. It never constructs a second
\* session and never opens a second upstream connection.
C13_EventualTeardown ==
    /\ \A i \in Conns :
         (conn[i] = "ok" /\ (ipc[i] \in Finished \/ opc[i] \in Finished))
           ~> (hpc[i] = "returned" /\ closeCalls[i] = 1 /\ up[ws[i]] = "closed")
    /\ [](\A i \in Conns :
            /\ sess[i] <= 1
            /\ ipc[i] = "done" => cli[i] # "open"
            /\ opc[i] = "done" => up[ws[i]] # "open")
    /\ [][\A i \in Conns :
            /\ sess[i] = 1 => sess'[i] = 1
            /\ ws[i] # None => ws'[i] = ws[i]]_vars

\* The client disconnected while the upstream connection was open; the inbound
\* task ended normally and the handler closed the session and returned.
C13_Witness ==
    /\ cli[1] = "gone"
    /\ ipc[1] = "done"
    /\ opc[1] \in {"cancelling", "cancelled"}
    /\ hpc[1] = "returned"
    /\ closeCalls[1] = 1
    /\ up[ws[1]] = "closed"
    /\ sess[1] = 1

\* A step of the inbound task of connection i and of nothing else: the
\* outbound task and the handler stay where they are, nothing is read from
\* upstream and nothing is sent to the client.
InboundStep(i) ==
    /\ ipc[i] = "recv"
    /\ opc'[i] = opc[i]
    /\ hpc'[i] = hpc[i]
    /\ upOut' = upOut
    /\ cliOut' = cliOut

\* A step of the outbound task of connection i and of nothing else.
OutboundStep(i) ==
    /\ opc[i] = "recv"
    /\ ipc'[i] = ipc[i]
    /\ hpc'[i] = hpc[i]
    /\ cliIn' = cliIn
    /\ upIn' = upIn

\* C14: while a session is active, a frame is written on its upstream
\* connection, or read from its client, only in a step of the inbound task,
\* and a message is read from its upstream connection, or a frame sent to its
\* client, only in a step of the outbound task; the handler does nothing on
\* either transport while a task runs (it is suspended in asyncio.wait). Each
\* transport so has one task writing it and one task reading it, and a task
\* does one thing at a time: no two writes and no two reads on a transport are
\* in progress together.
C14_SingleWriterReader ==
    /\ [](\A i \in Conns :
            ipc[i] \in Live \/ opc[i] \in Live =>
              conn[i] = "ok" /\ hpc[i] = "waiting")
    /\ [][\A i \in Conns :
            conn[i] = "ok" /\ hpc[i] = "waiting" =>
              /\ upIn'[ws[i]] # upIn[ws[i]] => InboundStep(i)
              /\ cliIn'[i] # cliIn[i] => InboundStep(i)
              /\ upOut'[ws[i]] # upOut[ws[i]] => OutboundStep(i)
              /\ cliOut'[i] # cliOut[i] => OutboundStep(i)]_vars

\* Both tasks running, each having read from its source and written to its
\* destination.
C14_Witness ==
    /\ hpc[1] = "waiting"
    /\ ipc[1] = "recv"
    /\ opc[1] = "recv"
    /\ Len(cliIn[1]) >= 1
    /\ Len(upIn[ws[1]]) >= 2
    /\ Len(upOut[ws[1]]) >= 1
    /\ Len(cliOut[1]) >= 1

\* C15: when the handler has ended, by returning or by an exception, every
\* upstream connection it opened has been closed by it: session.close() was
\* called and the connection is closed. In particular so when the handshake
\* succeeded and the send of the setup frame failed.
C15_UpstreamAlwaysClosed ==
    \A i \in Conns :
      hpc[i] \in {"returned", "raised", "aborted"} /\ ws[i] # None =>
        /\ closeCalls[i] >= 1
        /\ up[ws[i]] = "closed"

\* A frame the loop body cannot take apart: not JSON, no "type" member, a text
\* frame without "text", an audio frame without "pcm16".
Unparsable(f) ==
    \/ ~f.json
    \/ "type" \notin f.keys
    \/ f.type = "text" /\ "text" \notin f.keys
    \/ f.type = "audio" /\ "pcm16" \notin f.keys

\* C16: a client frame that cannot be parsed ends the inbound task with an
\* error: it is the last frame the task reads, nothing is written upstream in
\* the step that reads it (what has been written is one frame for each valid
\* event read before it), and the handler is then in its wait, which a
\* finished task ends, or past it: once it has left the wait the outbound task
\* is not running (cancelled unless it had finished) and session.close() has
\* been called exactly once.
C16_UnparsableEndsPump ==
    /\ [](\A i \in Conns :
            conn[i] = "ok" =>
              /\ \A k \in 1..Len(cliIn[i]) :
                   Unparsable(cliIn[i][k]) => k = Len(cliIn[i])
              /\ ipc[i] = "fail_parse" <=>
                   (cliIn[i] # <<>> /\ Unparsable(cliIn[i][Len(cliIn[i])]))
              /\ ipc[i] = "fail_parse" =>
                   /\ Len(upIn[ws[i]]) = 1 + Len(SelectSeq(cliIn[i], IsEvent))
                   /\ hpc[i] \in {"waiting", "closing", "returned"}
                   /\ closeCalls[i] = (IF hpc[i] = "waiting" THEN 0 ELSE 1)
                   /\ hpc[i] # "waiting" =>
                        /\ opc[i] \in Finished \cup Cancelled
                        /\ up[ws[i]] = "closed")
    /\ [][\A i \in Conns :
            ipc[i] # "fail_parse" /\ ipc'[i] = "fail_parse" =>
              /\ upIn' = upIn
              /\ hpc'[i] = "waiting"
              /\ opc'[i] = opc[i]]_vars

\* A text event forwarded, then an audio frame without "pcm16": the task
\* ended, the outbound task was cancelled, the session closed.
C16_Witness ==
    /\ cliIn[1] = <<F_Text, F_NoPcm>>
    /\ ipc[1] = "fail_parse"
    /\ Len(upIn[ws[1]]) = 2
    /\ opc[1] = "cancelled"
    /\ hpc[1] = "returned"
    /\ closeCalls[1] = 1

\* A frame that parses and has a "type" which is neither "text" nor "audio".
OtherType(f) ==
    /\ f.json
    /\ "type" \in f.keys
    /\ f.type \notin {"text", "audio"}

\* C17: the step in which the inbound task reads a frame of another type
\* writes nothing upstream and leaves the task reading; and a valid event read
\* right after such a frame is forwarded as if the frame had not been there:
\* unless its send failed, its image is the frame written upstream at the
\* position given by the count of valid events read so far.
C17_OtherTypeDropped ==
    /\ [][\A i \in Conns :
            /\ conn[i] = "ok"
            /\ Len(cliIn'[i]) = Len(cliIn[i]) + 1
            /\ OtherType(cliIn'[i][Len(cliIn'[i])])
            => /\ upIn' = upIn
               /\ ipc[i] = "recv"
               /\ ipc'[i] = "recv"]_vars
    /\ [](\A i \in Conns :
            conn[i] = "ok" =>
              \A k \in 1..(Len(cliIn[i]) - 1) :
                /\ OtherType(cliIn[i][k])
                /\ IsEvent(cliIn[i][k + 1])
                /\ k + 1 < Len(cliIn[i]) \/ ipc[i] # "fail_send"
                => LET n == Len(SelectSeq(SubSeq(cliIn[i], 1, k + 1), IsEvent))
                   IN /\ Len(upIn[ws[i]]) >= 1 + n
                      /\ ImageOf(cliIn[i][k + 1], upIn[ws[i]][1 + n]))

\* A video frame, then a text event: only the text frame went upstream.
C17_Witness ==
    /\ cliIn[1] = <<F_Video, F_Text>>
    /\ ipc[1] = "recv"
    /\ Len(upIn[ws[1]]) = 2
    /\ upIn[ws[1]][2] = [kind |-> "text", text |-> F_Text.text]

====
